---- MODULE Spec2Model ----
(***************************************************************************)
(* A model of torch/distributed/_tensor/op_schema.py: the OpSchema data    *)
(* class, its hand-written __hash__ / __eq__, args_spec, gen_fake_args /   *)
(* gen_fake_kwargs and _inplace_rewrap_schema_suggestion.                  *)
(*                                                                         *)
(* Python values are tagged records, so that values of different Python    *)
(* types are distinct and comparable:                                      *)
(*   None            [kind |-> "None"]                                     *)
(*   DTensorSpec     [kind |-> "DTensorSpec", placements, tensor_meta]     *)
(*   int             [kind |-> "int", val]                                 *)
(*   list            [kind |-> "list", items]                              *)
(*   tuple           [kind |-> "tuple", items]                             *)
(*   torch.Tensor    [kind |-> "Tensor", shape, stride, dtype]             *)
(* A dict is a function whose DOMAIN is its key set.  A Python hash is     *)
(* modelled by the value that is hashed: two hashes are equal exactly when *)
(* the hashed tuples are equal (no accidental collisions).                 *)
(***************************************************************************)
EXTENDS Integers, Sequences, FiniteSets, TLC

VARIABLES schemas, last

vars == <<schemas, last>>

(***************************************************************************)
(* Bounds of the model and the program's constant.                         *)
(***************************************************************************)
MaxArgs == 3

MaxIdentityArgs == 2

DefaultStaticArgnum == 100

(***************************************************************************)
(* Python values.                                                          *)
(***************************************************************************)
NoneVal == [kind |-> "None"]

AssertionError == [kind |-> "AssertionError"]

IndexError == [kind |-> "IndexError"]

Scalar(n) == [kind |-> "int", val |-> n]

List(items) == [kind |-> "list", items |-> items]

Tuple(items) == [kind |-> "tuple", items |-> items]

TensorMeta(shape, stride, dtype) ==
    [kind |-> "TensorMeta", shape |-> shape, stride |-> stride, dtype |-> dtype]

DTensorSpec(placements, tensor_meta) ==
    [kind |-> "DTensorSpec", placements |-> placements, tensor_meta |-> tensor_meta]

RuntimeSchemaInfo(static_argnum, static_kwargkey) ==
    [kind |-> "RuntimeSchemaInfo", static_argnum |-> static_argnum,
     static_kwargkey |-> static_kwargkey, needs_pytree |-> TRUE]

OpSchema(op, args_schema, kwargs_schema, schema_info) ==
    [op |-> op, args_schema |-> args_schema, kwargs_schema |-> kwargs_schema,
     schema_info |-> schema_info]

isinstance_DTensorSpec(v) == v.kind = "DTensorSpec"

isinstance_list(v) == v.kind = "list"

\* dict.get(k, None)
kwargs_get(kwargs_schema, k) ==
    IF k \in DOMAIN kwargs_schema THEN kwargs_schema[k] ELSE NoneVal

(***************************************************************************)
(* OpSchema.args_spec: the generator keeps the items that are DTensorSpec, *)
(* in iteration order.                                                     *)
(***************************************************************************)
RECURSIVE filter_DTensorSpec(_)
filter_DTensorSpec(items) ==
    IF items = <<>> THEN <<>>
    ELSE IF isinstance_DTensorSpec(Head(items))
         THEN <<Head(items)>> \o filter_DTensorSpec(Tail(items))
         ELSE filter_DTensorSpec(Tail(items))

args_spec_keeps_lists(self) ==
    SelectSeq(self.args_schema,
              LAMBDA item : isinstance_DTensorSpec(item) \/ isinstance_list(item))

args_spec(self) == filter_DTensorSpec(self.args_schema)

(***************************************************************************)
(* OpSchema.arg_type_tensor_or_tensor_list_like; arg_idx counts from 0.    *)
(***************************************************************************)
arg_type_tensor_or_tensor_list_like(self, arg_idx) ==
    LET arg == self.args_schema[arg_idx + 1]
    IN  IF isinstance_DTensorSpec(arg) THEN TRUE
        ELSE IF ~isinstance_list(arg) THEN FALSE
        ELSE \A n \in 1..Len(arg.items) :
                isinstance_DTensorSpec(arg.items[n]) \/ arg.items[n] = NoneVal

\* The defaults both __hash__ and __eq__ take when schema_info is absent.
static_argnum_of(self) ==
    IF self.schema_info = NoneVal THEN Len(self.args_schema)
    ELSE self.schema_info.static_argnum

static_kwargkey_of(self) ==
    IF self.schema_info = NoneVal THEN NoneVal
    ELSE self.schema_info.static_kwargkey

(***************************************************************************)
(* OpSchema.__hash__.  The hash is modelled by the tuple that is hashed.   *)
(***************************************************************************)
\* tuple(e) if isinstance(e, list) else e
to_hashable(e) == IF isinstance_list(e) THEN Tuple(e.items) ELSE e

RECURSIVE args_to_hash_from(_, _, _)
args_to_hash_from(self, i, static_argnum) ==
    IF i >= Len(self.args_schema) THEN <<>>
    ELSE IF arg_type_tensor_or_tensor_list_like(self, i) \/ i >= static_argnum
         THEN <<to_hashable(self.args_schema[i + 1])>>
                  \o args_to_hash_from(self, i + 1, static_argnum)
         ELSE args_to_hash_from(self, i + 1, static_argnum)

__hash__(self) ==
    LET static_argnum == static_argnum_of(self)
        static_kwargkey == static_kwargkey_of(self)
        args_to_hash == args_to_hash_from(self, 0, static_argnum)
    IN  IF static_kwargkey # NoneVal
        THEN <<self.op, args_to_hash,
               [n \in 1..Len(static_kwargkey.items) |->
                   kwargs_get(self.kwargs_schema, static_kwargkey.items[n])]>>
        ELSE <<self.op, args_to_hash>>

(***************************************************************************)
(* OpSchema.__eq__ (other is an OpSchema).  The loop returns False at the  *)
(* first position whose if / elif condition holds.                         *)
(***************************************************************************)
args_mismatch(self, other, i, static_argnum) ==
    LET self_arg == self.args_schema[i + 1]
        other_arg == other.args_schema[i + 1]
    IN  IF isinstance_DTensorSpec(self_arg) /\ self_arg # other_arg THEN TRUE
        ELSE IF i >= static_argnum /\ self_arg # other_arg THEN TRUE
        ELSE FALSE

\* if static_kwargkey: a list is true when it is not None and not empty
kwargs_mismatch(self, other, static_kwargkey) ==
    IF static_kwargkey # NoneVal /\ static_kwargkey.items # <<>>
    THEN \E n \in 1..Len(static_kwargkey.items) :
            kwargs_get(self.kwargs_schema, static_kwargkey.items[n])
                # kwargs_get(other.kwargs_schema, static_kwargkey.items[n])
    ELSE FALSE

eq_ignoring_kwargs(self, other) ==
    IF self.op # other.op THEN FALSE
    ELSE IF Len(self.args_schema) # Len(other.args_schema) THEN FALSE
    ELSE ~\E i \in 0..(Len(self.args_schema) - 1) :
                args_mismatch(self, other, i, static_argnum_of(self))

eq_all_args(self, other) ==
    IF self.op # other.op THEN FALSE
    ELSE IF self.args_schema # other.args_schema THEN FALSE
    ELSE ~kwargs_mismatch(self, other, static_kwargkey_of(self))

__eq__(self, other) ==
    IF self.op # other.op THEN FALSE
    ELSE IF Len(self.args_schema) # Len(other.args_schema) THEN FALSE
    ELSE LET static_argnum == static_argnum_of(self)
             static_kwargkey == static_kwargkey_of(self)
         IN  IF \E i \in 0..(Len(self.args_schema) - 1) :
                    args_mismatch(self, other, i, static_argnum)
             THEN FALSE
             ELSE IF kwargs_mismatch(self, other, static_kwargkey) THEN FALSE
             ELSE TRUE

(***************************************************************************)
(* _rebuild_tensor_from_dtensor_meta: the assert, then torch.empty_strided *)
(* with the spec's shape, stride and dtype.                                *)
(***************************************************************************)
rebuild_swaps_shape_and_stride(arg) ==
    IF arg.tensor_meta = NoneVal THEN AssertionError
    ELSE [kind |-> "Tensor", shape |-> arg.tensor_meta.stride,
          stride |-> arg.tensor_meta.shape, dtype |-> arg.tensor_meta.dtype]

_rebuild_tensor_from_dtensor_meta(arg) ==
    IF arg.tensor_meta = NoneVal THEN AssertionError
    ELSE [kind |-> "Tensor", shape |-> arg.tensor_meta.shape,
          stride |-> arg.tensor_meta.stride, dtype |-> arg.tensor_meta.dtype]

(***************************************************************************)
(* torch.utils._pytree.tree_map_only(DTensorSpec, fn, tree): fn is applied *)
(* to every DTensorSpec leaf of the tree (tuples, lists and dicts are its  *)
(* inner nodes), every other leaf is kept; an exception raised by fn ends  *)
(* the call.                                                               *)
(***************************************************************************)
RECURSIVE map_only_DTensorSpec(_)
map_only_DTensorSpec(v) ==
    IF isinstance_DTensorSpec(v) THEN _rebuild_tensor_from_dtensor_meta(v)
    ELSE IF v.kind \in {"list", "tuple"}
         THEN [v EXCEPT !.items = [n \in 1..Len(v.items) |->
                                       map_only_DTensorSpec(v.items[n])]]
         ELSE v

RECURSIVE raises(_)
raises(v) ==
    IF v = AssertionError THEN TRUE
    ELSE IF v.kind \in {"list", "tuple"}
         THEN \E n \in 1..Len(v.items) : raises(v.items[n])
         ELSE FALSE

tree_map_only_args(args) ==
    LET mapped == map_only_DTensorSpec(Tuple(args))
    IN  IF raises(mapped) THEN AssertionError ELSE mapped

tree_map_only_kwargs(kwargs) ==
    LET mapped == [k \in DOMAIN kwargs |-> map_only_DTensorSpec(kwargs[k])]
    IN  IF \E k \in DOMAIN kwargs : raises(mapped[k]) THEN AssertionError
        ELSE [kind |-> "dict", items |-> mapped]

gen_fake_args(self) == tree_map_only_args(self.args_schema)

gen_fake_kwargs(self) == tree_map_only_kwargs(self.kwargs_schema)

(***************************************************************************)
(* OpSchema._inplace_rewrap_schema_suggestion.  The loop either builds     *)
(* new_arg_schema or raises IndexError at suggestion_args_spec[idx]; the   *)
(* two assignments to self follow the loop.                                *)
(***************************************************************************)
RECURSIVE rewrap_loop(_, _, _, _)
rewrap_loop(suggestion_args_spec, origin_args, idx_of_args_spec, new_arg_schema) ==
    IF origin_args = <<>> THEN Tuple(new_arg_schema)
    ELSE LET arg == Head(origin_args)
         IN  IF isinstance_DTensorSpec(arg)
             THEN IF idx_of_args_spec >= Len(suggestion_args_spec) THEN IndexError
                  ELSE rewrap_loop(suggestion_args_spec, Tail(origin_args),
                                   idx_of_args_spec + 1,
                                   Append(new_arg_schema,
                                          suggestion_args_spec[idx_of_args_spec + 1]))
             ELSE rewrap_loop(suggestion_args_spec, Tail(origin_args),
                              idx_of_args_spec, Append(new_arg_schema, arg))

\* The value of self after the call, and whether the call raised.
rewrap_keeps_first_spec(self, origin_schema) ==
    LET suggestion_args_spec == args_spec(self)
        new == [n \in 1..Len(origin_schema.args_schema) |->
                   IF isinstance_DTensorSpec(origin_schema.args_schema[n])
                   THEN suggestion_args_spec[1]
                   ELSE origin_schema.args_schema[n]]
        short == Len(suggestion_args_spec) < Len(args_spec(origin_schema))
    IN  IF short THEN [raised |-> TRUE, self |-> self]
        ELSE [raised |-> FALSE,
              self |-> [self EXCEPT !.args_schema = new,
                                    !.kwargs_schema = origin_schema.kwargs_schema]]

rewrap_copies_whole_origin(self, origin_schema) ==
    LET new == rewrap_loop(args_spec(self), origin_schema.args_schema, 0, <<>>)
    IN  IF new = IndexError THEN [raised |-> TRUE, self |-> self]
        ELSE [raised |-> FALSE,
              self |-> [origin_schema EXCEPT !.args_schema = new.items]]

_inplace_rewrap_schema_suggestion(self, origin_schema) ==
    LET suggestion_args_spec == args_spec(self)
        new == rewrap_loop(suggestion_args_spec, origin_schema.args_schema, 0, <<>>)
    IN  IF new = IndexError THEN [raised |-> TRUE, self |-> self]
        ELSE [raised |-> FALSE,
              self |-> [self EXCEPT !.args_schema = new.items,
                                    !.kwargs_schema = origin_schema.kwargs_schema]]

(***************************************************************************)
(* The values the model draws its schemas from.                            *)
(***************************************************************************)
Refs == {1, 2}

OpAdd == "aten.add.Tensor"

OpView == "aten.view.default"

Meta48 == TensorMeta(<<4, 8>>, <<8, 1>>, "float32")

SpecR == DTensorSpec("Replicate", Meta48)

SpecS == DTensorSpec("Shard(0)", Meta48)

SpecN == DTensorSpec("Replicate", NoneVal)

Keys == {"dim", "dtype"}

KeyList(keys) == List(keys)

TuplesUpTo(V, n) == UNION {[1..k -> V] : k \in 0..n}

Dicts(K, V) == UNION {[D -> V] : D \in SUBSET K}

EmptyDict == [k \in {} |-> NoneVal]

\* Positional values of the identity runs: specs, scalars, the empty list,
\* lists of specs / None, and a list that holds a scalar.
IdentityArgs ==
    {SpecR, SpecS, Scalar(1), Scalar(2), List(<<>>), List(<<SpecR>>),
     List(<<NoneVal, SpecS>>), List(<<Scalar(1)>>)}

IdentityInfos ==
    {NoneVal} \cup
    {RuntimeSchemaInfo(n, NoneVal) : n \in (0..(MaxIdentityArgs - 1)) \cup {DefaultStaticArgnum}}

KwargInfos ==
    {NoneVal} \cup
    {RuntimeSchemaInfo(DefaultStaticArgnum, k) :
        k \in {NoneVal, KeyList(<<>>), KeyList(<<"dim">>), KeyList(<<"dtype", "dim">>)}}

KwargValues == {NoneVal, Scalar(1), Scalar(2)}

\* The schemas that differ from a in at most one component.
ArgVariants(a) ==
    {a, [a EXCEPT !.op = OpView], [a EXCEPT !.kwargs_schema = [dim |-> Scalar(1)]]}
    \cup {[a EXCEPT !.schema_info = i] : i \in IdentityInfos}
    \cup {[a EXCEPT !.args_schema[p] = v] :
             p \in 1..Len(a.args_schema), v \in IdentityArgs}
    \cup {[a EXCEPT !.args_schema = SubSeq(a.args_schema, 1, Len(a.args_schema) - 1)]}
    \cup {[a EXCEPT !.args_schema = Append(a.args_schema, v)] :
             v \in IF Len(a.args_schema) < MaxIdentityArgs THEN IdentityArgs ELSE {}}

KwargVariants(a) ==
    {a}
    \cup {[a EXCEPT !.kwargs_schema =
              [k \in DOMAIN a.kwargs_schema \cup {key} |->
                  IF k = key THEN v ELSE a.kwargs_schema[k]]] :
             key \in Keys, v \in KwargValues}
    \cup {[a EXCEPT !.kwargs_schema =
              [k \in DOMAIN a.kwargs_schema \ {key} |-> a.kwargs_schema[k]]] :
             key \in Keys}

NoCall == [name |-> "none", self |-> 0, other |-> 0, ret |-> NoneVal]

Call(name, self, other, ret) ==
    [name |-> name, self |-> self, other |-> other, ret |-> ret]

(***************************************************************************)
(* Initial states.  InitOps: a suggestion (self) and an original schema    *)
(* with unrelated arguments.  InitIdentity: two schemas that differ in at  *)
(* most one component, for the comparisons of __eq__ and __hash__.         *)
(***************************************************************************)
SelfArgs == {SpecR, SpecN, Scalar(1)}

OriginArgs == {SpecS, Scalar(2), List(<<SpecR, NoneVal>>)}

InitOps ==
    /\ \E sa \in TuplesUpTo(SelfArgs, MaxArgs), oa \in TuplesUpTo(OriginArgs, MaxArgs),
          sk \in {[dim |-> SpecR, dtype |-> List(<<SpecR, Scalar(2)>>)]},
          ok \in {[dtype |-> List(<<NoneVal, SpecN>>)]} :
          schemas = [r \in Refs |->
                        IF r = 1
                        THEN OpSchema(OpView, sa, sk, RuntimeSchemaInfo(1, NoneVal))
                        ELSE OpSchema(OpAdd, oa, ok, NoneVal)]
    /\ last = NoCall

InitIdentity ==
    /\ \/ \E args \in TuplesUpTo(IdentityArgs, MaxIdentityArgs), info \in IdentityInfos :
             \E b \in ArgVariants(OpSchema(OpAdd, args, EmptyDict, info)) :
                schemas = [r \in Refs |->
                              IF r = 1 THEN OpSchema(OpAdd, args, EmptyDict, info)
                              ELSE b]
       \/ \E args \in {<<>>, <<SpecR, Scalar(1)>>}, info \in KwargInfos,
             kw \in Dicts(Keys, KwargValues) :
             \E b \in KwargVariants(OpSchema(OpAdd, args, kw, info)) :
                schemas = [r \in Refs |->
                              IF r = 1 THEN OpSchema(OpAdd, args, kw, info) ELSE b]
    /\ last = NoCall

(***************************************************************************)
(* One action per operation of OpSchema.  A call records its name, its     *)
(* receiver, its argument and what it returned or raised in last.          *)
(***************************************************************************)
CallArgsSpec(i) ==
    /\ last' = Call("args_spec", i, 0, Tuple(args_spec(schemas[i])))
    /\ UNCHANGED schemas

CallArgType(i, arg_idx) ==
    /\ arg_idx < Len(schemas[i].args_schema)
    /\ last' = Call("arg_type_tensor_or_tensor_list_like", i, arg_idx,
                    arg_type_tensor_or_tensor_list_like(schemas[i], arg_idx))
    /\ UNCHANGED schemas

CallHash(i) ==
    /\ last' = Call("__hash__", i, 0, __hash__(schemas[i]))
    /\ UNCHANGED schemas

CallEq(i, j) ==
    /\ last' = Call("__eq__", i, j, __eq__(schemas[i], schemas[j]))
    /\ UNCHANGED schemas

CallGenFakeArgs(i) ==
    /\ last' = Call("gen_fake_args", i, 0, gen_fake_args(schemas[i]))
    /\ UNCHANGED schemas

CallGenFakeKwargs(i) ==
    /\ last' = Call("gen_fake_kwargs", i, 0, gen_fake_kwargs(schemas[i]))
    /\ UNCHANGED schemas

CallRewrap(i, j) ==
    LET r == _inplace_rewrap_schema_suggestion(schemas[i], schemas[j])
    IN  /\ schemas' = [schemas EXCEPT ![i] = r.self]
        /\ last' = Call("_inplace_rewrap_schema_suggestion", i, j,
                        IF r.raised THEN IndexError ELSE NoneVal)

Next ==
    \/ \E i \in Refs : CallArgsSpec(i)
    \/ \E i \in Refs, arg_idx \in 0..(MaxArgs - 1) : CallArgType(i, arg_idx)
    \/ \E i \in Refs : CallHash(i)
    \/ \E i \in Refs, j \in Refs : CallEq(i, j)
    \/ \E i \in Refs : CallGenFakeArgs(i)
    \/ \E i \in Refs : CallGenFakeKwargs(i)
    \/ \E i \in Refs, j \in Refs : CallRewrap(i, j)

NextIdentity ==
    \/ \E i \in Refs : CallHash(i)
    \/ \E i \in Refs, j \in Refs : CallEq(i, j)

Spec == InitOps /\ [][Next]_vars

SpecIdentity == InitIdentity /\ [][NextIdentity]_vars

(***************************************************************************)
(* Vocabulary of the properties, stated on the data and not through the    *)
(* operators above.                                                        *)
(***************************************************************************)
RewrapName == "_inplace_rewrap_schema_suggestion"

ReadOnlyNames ==
    {"args_spec", "arg_type_tensor_or_tensor_list_like", "__hash__", "__eq__",
     "gen_fake_args", "gen_fake_kwargs"}

SpecPositions(args) == {p \in 1..Len(args) : args[p].kind = "DTensorSpec"}

Rank(args, p) == Cardinality({q \in SpecPositions(args) : q < p}) + 1

NthSpec(args, k) == args[CHOOSE p \in SpecPositions(args) : Rank(args, p) = k]

\* A placement spec, or a list composed entirely of placement specs / None.
SpecOrSpecList(v) ==
    \/ v.kind = "DTensorSpec"
    \/ /\ v.kind = "list"
       /\ \A n \in 1..Len(v.items) : v.items[n].kind \in {"DTensorSpec", "None"}

EffectiveStaticArgnum(a) ==
    IF a.schema_info = NoneVal THEN Len(a.args_schema)
    ELSE a.schema_info.static_argnum

\* a and b are alike except for the value at one position below static_argnum.
DifferOnlyBelowStaticArgnum(a, b, p) ==
    /\ a.op = b.op
    /\ a.schema_info = b.schema_info
    /\ a.kwargs_schema = b.kwargs_schema
    /\ Len(a.args_schema) = Len(b.args_schema)
    /\ p \in 1..Len(a.args_schema)
    /\ p - 1 < EffectiveStaticArgnum(a)
    /\ a.args_schema[p] # b.args_schema[p]
    /\ \A q \in 1..Len(a.args_schema) : q # p => a.args_schema[q] = b.args_schema[q]
    /\ a.args_schema[p].kind # "DTensorSpec"
    /\ b.args_schema[p].kind # "DTensorSpec"

\* a and b are alike except for the value of keyword argument key.
DifferOnlyInKwarg(a, b, key) ==
    /\ a.op = b.op
    /\ a.args_schema = b.args_schema
    /\ a.schema_info = b.schema_info
    /\ DOMAIN a.kwargs_schema = DOMAIN b.kwargs_schema
    /\ key \in DOMAIN a.kwargs_schema
    /\ a.kwargs_schema[key] # b.kwargs_schema[key]
    /\ \A k \in DOMAIN a.kwargs_schema : k # key => a.kwargs_schema[k] = b.kwargs_schema[k]

ListedKwarg(a, key) ==
    /\ a.schema_info # NoneVal
    /\ a.schema_info.static_kwargkey # NoneVal
    /\ \E n \in 1..Len(a.schema_info.static_kwargkey.items) :
          a.schema_info.static_kwargkey.items[n] = key

MissingMeta(x) == x.kind = "DTensorSpec" /\ x.tensor_meta = NoneVal

AnyMissingMeta(x) ==
    \/ MissingMeta(x)
    \/ x.kind = "list" /\ \E n \in 1..Len(x.items) : MissingMeta(x.items[n])

LeafFake(x, y) ==
    IF x.kind = "DTensorSpec"
    THEN /\ y.kind = "Tensor"
         /\ y.shape = x.tensor_meta.shape
         /\ y.stride = x.tensor_meta.stride
         /\ y.dtype = x.tensor_meta.dtype
    ELSE y = x

NodeFake(x, y) ==
    IF x.kind = "list"
    THEN /\ y.kind = "list"
         /\ Len(y.items) = Len(x.items)
         /\ \A n \in 1..Len(x.items) : LeafFake(x.items[n], y.items[n])
    ELSE LeafFake(x, y)

LastSelf == schemas[last.self]

LastOther == schemas[last.other]

(***************************************************************************)
(* C1.  Whenever a == b returns True, hash(a) == hash(b).                  *)
(***************************************************************************)
C1_EqualImpliesSameHash ==
    (last.name = "__eq__" /\ last.ret = TRUE) =>
        __hash__(LastSelf) = __hash__(LastOther)

(***************************************************************************)
(* C2.  Two schemas alike but for one positional argument below            *)
(* static_argnum, which is a placement spec in neither, compare equal and  *)
(* hash equal, whatever the two values are.                                *)
(***************************************************************************)
C2_AnyValueBelowStaticArgnumIgnored ==
    last.name = "__eq__" =>
        \A p \in 1..MaxIdentityArgs :
            DifferOnlyBelowStaticArgnum(LastSelf, LastOther, p) =>
                last.ret = TRUE /\ __hash__(LastSelf) = __hash__(LastOther)

(***************************************************************************)
(* C2 as amended.  The same, when neither of the two differing values is a *)
(* list composed entirely of placement specs / None (the empty list is     *)
(* such a list).                                                           *)
(***************************************************************************)
C2_NonTensorValueBelowStaticArgnumIgnored ==
    last.name = "__eq__" =>
        \A p \in 1..MaxIdentityArgs :
            ( /\ DifferOnlyBelowStaticArgnum(LastSelf, LastOther, p)
              /\ ~SpecOrSpecList(LastSelf.args_schema[p])
              /\ ~SpecOrSpecList(LastOther.args_schema[p]) ) =>
                last.ret = TRUE /\ __hash__(LastSelf) = __hash__(LastOther)

C2_Witness ==
    /\ last.name = "__eq__"
    /\ last.ret = TRUE
    /\ LastSelf.schema_info # NoneVal
    /\ LastSelf.schema_info.static_argnum = 1
    /\ DifferOnlyBelowStaticArgnum(LastSelf, LastOther, 1)
    /\ LastSelf.args_schema = <<Scalar(1), Scalar(2)>>
    /\ LastOther.args_schema = <<List(<<Scalar(1)>>), Scalar(2)>>

(***************************************************************************)
(* C3.  Two schemas alike but for the value of one keyword argument        *)
(* compare unequal when the key is listed in static_kwargkey, and equal    *)
(* when it is not listed, static_kwargkey is absent or schema_info is      *)
(* absent.                                                                 *)
(***************************************************************************)
C3_KeywordSensitivity ==
    last.name = "__eq__" =>
        \A key \in Keys :
            DifferOnlyInKwarg(LastSelf, LastOther, key) =>
                last.ret = ~ListedKwarg(LastSelf, key)

C3_Witness ==
    /\ last.name = "__eq__"
    /\ last.ret = FALSE
    /\ DifferOnlyInKwarg(LastSelf, LastOther, "dim")
    /\ ListedKwarg(LastSelf, "dim")
    /\ "dtype" \in DOMAIN LastSelf.kwargs_schema

(***************************************************************************)
(* C4.  Two schemas with the same operator, argument count and schema_info *)
(* that differ in a positional argument that is a placement spec or a list *)
(* of placement specs / None compare unequal and hash differently.         *)
(***************************************************************************)
C4_TensorArgsAlwaysCompared ==
    last.name = "__eq__" =>
        ( ( /\ LastSelf.op = LastOther.op
            /\ Len(LastSelf.args_schema) = Len(LastOther.args_schema)
            /\ LastSelf.schema_info = LastOther.schema_info
            /\ \E p \in 1..Len(LastSelf.args_schema) :
                  /\ SpecOrSpecList(LastSelf.args_schema[p])
                  /\ SpecOrSpecList(LastOther.args_schema[p])
                  /\ LastSelf.args_schema[p] # LastOther.args_schema[p] )
          => last.ret = FALSE /\ __hash__(LastSelf) # __hash__(LastOther) )

(***************************************************************************)
(* C9.  a == b and b == a give the same result.                            *)
(***************************************************************************)
C9_EqSymmetric ==
    last.name = "__eq__" => last.ret = __eq__(LastOther, LastSelf)

(***************************************************************************)
(* C5.  When self.args_spec has as many entries as origin has placement    *)
(* specs, the rewrap returns, self.args_schema gets origin's length, holds *)
(* the k-th entry of self's previous args_spec at origin's k-th spec       *)
(* position and origin's value elsewhere, and self.kwargs_schema is        *)
(* origin's.                                                               *)
(***************************************************************************)
C5_RewrapCorrect ==
    [][ ( /\ last'.name = RewrapName
          /\ Cardinality(SpecPositions(schemas[last'.self].args_schema))
                = Cardinality(SpecPositions(schemas[last'.other].args_schema)) )
        => LET old == schemas[last'.self].args_schema
               origin == schemas[last'.other]
               new == schemas'[last'.self]
           IN  /\ last'.ret = NoneVal
               /\ Len(new.args_schema) = Len(origin.args_schema)
               /\ \A p \in 1..Len(origin.args_schema) :
                     new.args_schema[p] =
                        IF p \in SpecPositions(origin.args_schema)
                        THEN NthSpec(old, Rank(origin.args_schema, p))
                        ELSE origin.args_schema[p]
               /\ new.kwargs_schema = origin.kwargs_schema ]_vars

C5_Witness ==
    /\ last.name = RewrapName
    /\ last.ret = NoneVal
    /\ last.self = 1
    /\ last.other = 2
    /\ schemas[2].args_schema = <<SpecS, Scalar(2), SpecS>>
    /\ schemas[1].args_schema = <<SpecR, Scalar(2), SpecN>>
    /\ schemas[1].kwargs_schema = schemas[2].kwargs_schema

(***************************************************************************)
(* C6.  When the number of entries of self.args_spec differs from the      *)
(* number of placement specs of origin (fewer or more), the rewrap raises  *)
(* and rewrites nothing.                                                   *)
(***************************************************************************)
C6_RewrapMismatchFails ==
    [][ ( /\ last'.name = RewrapName
          /\ Cardinality(SpecPositions(schemas[last'.self].args_schema))
                # Cardinality(SpecPositions(schemas[last'.other].args_schema)) )
        => (last'.ret = IndexError /\ schemas' = schemas) ]_vars

(***************************************************************************)
(* C7.  args_spec returns exactly the top-level placement specs of         *)
(* args_schema, in their order, and nothing else.                          *)
(***************************************************************************)
C7_ArgsSpecCorrect ==
    last.name = "args_spec" =>
        LET args == LastSelf.args_schema
            ret == last.ret.items
        IN  /\ Len(ret) = Cardinality(SpecPositions(args))
            /\ \A k \in 1..Len(ret) : ret[k].kind = "DTensorSpec"
            /\ \A p \in SpecPositions(args) : ret[Rank(args, p)] = args[p]

C7_Witness ==
    /\ last.name = "args_spec"
    /\ LastSelf.args_schema = <<List(<<SpecR, NoneVal>>), SpecS, Scalar(2)>>
    /\ last.ret.items = <<SpecS>>

(***************************************************************************)
(* C8.  gen_fake_args / gen_fake_kwargs return the tree of args_schema /   *)
(* kwargs_schema with every placement spec, nested ones included, replaced *)
(* by a tensor of the spec's shape, stride and dtype and every other leaf  *)
(* kept; they raise when some placement spec has no tensor metadata.       *)
(***************************************************************************)
C8_FakeArgsCorrect ==
    /\ last.name = "gen_fake_args" =>
          LET args == LastSelf.args_schema
          IN  IF \E p \in 1..Len(args) : AnyMissingMeta(args[p])
              THEN last.ret = AssertionError
              ELSE /\ last.ret.kind = "tuple"
                   /\ Len(last.ret.items) = Len(args)
                   /\ \A p \in 1..Len(args) : NodeFake(args[p], last.ret.items[p])
    /\ last.name = "gen_fake_kwargs" =>
          LET kwargs == LastSelf.kwargs_schema
          IN  IF \E k \in DOMAIN kwargs : AnyMissingMeta(kwargs[k])
              THEN last.ret = AssertionError
              ELSE /\ last.ret.kind = "dict"
                   /\ DOMAIN last.ret.items = DOMAIN kwargs
                   /\ \A k \in DOMAIN kwargs : NodeFake(kwargs[k], last.ret.items[k])

C8_Witness ==
    /\ last.name = "gen_fake_args"
    /\ LastSelf.args_schema = <<SpecS, List(<<SpecR, NoneVal>>), Scalar(2)>>
    /\ last.ret.kind = "tuple"
    /\ last.ret.items[1] = [kind |-> "Tensor", shape |-> <<4, 8>>,
                            stride |-> <<8, 1>>, dtype |-> "float32"]
    /\ last.ret.items[2].items[1].kind = "Tensor"
    /\ last.ret.items[2].items[2] = NoneVal

(***************************************************************************)
(* C10.  The read-only operations change no field of any schema (so no     *)
(* hash changes); the rewrap changes only self.args_schema and             *)
(* self.kwargs_schema and leaves origin_schema as it was.                  *)
(***************************************************************************)
C10_FrameEffect ==
    [][ /\ last'.name \in ReadOnlyNames =>
              /\ schemas' = schemas
              /\ \A r \in Refs : __hash__(schemas'[r]) = __hash__(schemas[r])
        /\ last'.name = RewrapName =>
              /\ schemas'[last'.self].op = schemas[last'.self].op
              /\ schemas'[last'.self].schema_info = schemas[last'.self].schema_info
              /\ schemas'[last'.other] = schemas[last'.other]
              /\ \A r \in Refs : r # last'.self => schemas'[r] = schemas[r] ]_vars

C10_Witness ==
    /\ last.name = RewrapName
    /\ last.ret = NoneVal
    /\ last.self # last.other
    /\ LastSelf.op # LastOther.op
    /\ LastSelf.schema_info # LastOther.schema_info
    /\ LastSelf.kwargs_schema = LastOther.kwargs_schema
    /\ LastSelf.args_schema # LastOther.args_schema

====
